---- MODULE Spec2Model ----
(***************************************************************************)
(* Model of churn_app.py, a Streamlit script.  Streamlit executes the      *)
(* script from its first line to its last on every user interaction (a     *)
(* widget edit, a button press, a browser reload); st.stop() ends the      *)
(* current execution, an uncaught exception ends it as well, and an        *)
(* interaction that arrives while the script is running makes the next     *)
(* st.* call abandon the execution in favour of a new one.  The script is  *)
(* therefore cut into steps that each begin at an st.* call.  Widget       *)
(* values persist between executions of one browser session; the script's  *)
(* globals (model, scaler, user_inputs, input_data, ...) do not.           *)
(***************************************************************************)
EXTENDS Integers, Sequences, FiniteSets, TLC

(***************************************************************************)
(* Bounds of the model.                                                    *)
(***************************************************************************)
\* script executions in one process lifetime
MaxRuns == 3
\* files of the working directory that may be absent
MaxMissing == 1
\* number inputs the user edits: the first MaxEdited entries of scale_vars
MaxEdited == 1

(***************************************************************************)
(* Python values: << type, numerator, denominator, text >>.  An int n is   *)
(* n/1, a float is the rational n/d, a str carries its text.               *)
(***************************************************************************)
PyInt(n) == << "int", n, 1, "" >>
PyFloat(n, d) == << "float", n, d, "" >>
PyStr(s) == << "str", 0, 1, s >>

TypeOf(v) == v[1]
Numer(v) == v[2]
Denom(v) == v[3]
TextOf(v) == v[4]

Range(seq) == {seq[i] : i \in 1..Len(seq)}
NoRecord == [f \in {} |-> PyInt(0)]

(***************************************************************************)
(* Step 2: the feature schema.                                             *)
(***************************************************************************)
feature_names ==
  << "vintage", "age", "gender", "dependents", "occupation", "city",
     "customer_nw_category", "current_balance", "previous_month_end_balance",
     "average_monthly_balance_prevQ", "average_monthly_balance_prevQ2",
     "current_month_credit", "previous_month_credit", "current_month_debit",
     "previous_month_debit", "current_month_balance",
     "previous_month_balance", "days_since_last_transaction" >>

scale_vars ==
  << "vintage", "age", "dependents", "current_balance", "previous_month_end_balance",
     "average_monthly_balance_prevQ", "average_monthly_balance_prevQ2",
     "current_month_credit", "previous_month_credit", "current_month_debit",
     "previous_month_debit", "current_month_balance",
     "previous_month_balance", "days_since_last_transaction" >>

default_values(feature) ==
  CASE feature = "vintage" -> PyInt(60)
    [] feature = "age" -> PyInt(35)
    [] feature = "gender" -> PyStr("Male")
    [] feature = "dependents" -> PyInt(2)
    [] feature = "occupation" -> PyStr("salaried")
    [] feature = "city" -> PyStr("1020")
    [] feature = "customer_nw_category" -> PyStr("1")
    [] feature = "current_balance" -> PyInt(50000)
    [] feature = "previous_month_end_balance" -> PyInt(45000)
    [] feature = "average_monthly_balance_prevQ" -> PyInt(42000)
    [] feature = "average_monthly_balance_prevQ2" -> PyInt(40000)
    [] feature = "current_month_credit" -> PyInt(15000)
    [] feature = "previous_month_credit" -> PyInt(13000)
    [] feature = "current_month_debit" -> PyInt(12000)
    [] feature = "previous_month_debit" -> PyInt(11000)
    [] feature = "current_month_balance" -> PyInt(40000)
    [] feature = "previous_month_balance" -> PyInt(43000)
    [] feature = "days_since_last_transaction" -> PyInt(30)

(***************************************************************************)
(* Step 3: the sidebar widgets.  Each feature of scale_vars is a           *)
(* number_input; the four named features are selectboxes over a closed     *)
(* option list; anything else would be a free-text input.                  *)
(***************************************************************************)
WidgetKind(feature) ==
  IF feature \in Range(scale_vars) THEN "number_input"
  ELSE IF feature \in {"gender", "occupation", "customer_nw_category", "city"}
       THEN "selectbox"
       ELSE "text_input"

OptionsWithExtraCity(feature) ==
  CASE feature = "gender" -> << "Male", "Female" >>
    [] feature = "occupation" -> << "salaried", "self-employed", "unemployed" >>
    [] feature = "customer_nw_category" -> << "1", "2", "3" >>
    [] feature = "city" -> << "1020", "1030", "1040" >>
    [] OTHER -> << >>

Options(feature) ==
  CASE feature = "gender" -> << "Male", "Female" >>
    [] feature = "occupation" -> << "salaried", "self-employed", "unemployed" >>
    [] feature = "customer_nw_category" -> << "1", "2", "3" >>
    [] feature = "city" -> << "1020", "1030" >>
    [] OTHER -> << >>

\* the value a widget holds in a fresh session: value=default_values(feature)
\* for number_input and text_input, index=0 for a selectbox
WidgetDefault(feature) ==
  IF WidgetKind(feature) = "selectbox" THEN PyStr(Options(feature)[1])
  ELSE default_values(feature)

\* step=1 of number_input: what one press of + adds
number_input_step == 1

\* the values the user gives a widget in one interaction: one press of + on a
\* number_input (of those the user edits), another option of a selectbox
WidgetChoices(feature, current) ==
  CASE WidgetKind(feature) = "number_input" ->
         IF feature \in { scale_vars[i] : i \in 1..MaxEdited }
         THEN { PyInt(Numer(current) + number_input_step) }
         ELSE {}
    [] WidgetKind(feature) = "selectbox" ->
         { PyStr(o) : o \in Range(Options(feature)) } \ {current}
    [] OTHER -> { PyStr("free text"), PyStr("12") } \ {current}

(***************************************************************************)
(* The categorical encoding: DataFrame.replace with a nested dict          *)
(* {column: {old: new}} substitutes, column by column, the cells equal to  *)
(* a key of that column's dict and leaves every other cell as it is.       *)
(***************************************************************************)
EncodingTableFemaleAsOne ==
     "gender" :> ("Male" :> 1 @@ "Female" :> 1)
  @@ "occupation" :> ("salaried" :> 1 @@ "self-employed" :> 2 @@ "unemployed" :> 3)
  @@ "customer_nw_category" :> ("1" :> 1 @@ "2" :> 2 @@ "3" :> 3)
  @@ "city" :> ("1020" :> 1020 @@ "1030" :> 1030)

EncodingTable ==
     "gender" :> ("Male" :> 1 @@ "Female" :> 0)
  @@ "occupation" :> ("salaried" :> 1 @@ "self-employed" :> 2 @@ "unemployed" :> 3)
  @@ "customer_nw_category" :> ("1" :> 1 @@ "2" :> 2 @@ "3" :> 3)
  @@ "city" :> ("1020" :> 1020 @@ "1030" :> 1030)

replace(df) ==
  [ f \in DOMAIN df |->
      IF /\ f \in DOMAIN EncodingTable
         /\ TypeOf(df[f]) = "str"
         /\ TextOf(df[f]) \in DOMAIN EncodingTable[f]
      THEN PyInt(EncodingTable[f][TextOf(df[f])])
      ELSE df[f] ]

(***************************************************************************)
(* The two pickled artifacts are opaque to the script.  The scaler is a    *)
(* fitted MinMaxScaler: transform maps x to (x - data_min) / (data_max -   *)
(* data_min) per column, after converting the frame to float64 (which      *)
(* raises ValueError on a cell that is no number and no numeric text).     *)
(* The fitted range stands for the content of scaler.pkl.                  *)
(***************************************************************************)
data_min(feature) == 0
data_max(feature) == 2 * Numer(default_values(feature))

\* float(text) of the texts a widget can return that float() converts; the
\* other texts a widget can return ("Male", "salaried", "free text", ...)
\* make float() raise
NumericText ==
  "1" :> 1 @@ "2" :> 2 @@ "3" :> 3 @@ "12" :> 12 @@ "1020" :> 1020 @@ "1030" :> 1030

IsNumeric(v) == TypeOf(v) \in {"int", "float"} \/ (TypeOf(v) = "str" /\ TextOf(v) \in DOMAIN NumericText)

AsFloat(v) == IF TypeOf(v) = "str" THEN PyFloat(NumericText[TextOf(v)], 1) ELSE PyFloat(Numer(v), Denom(v))

MinMax(feature, v) ==
  LET x == AsFloat(v)
  IN  PyFloat(Numer(x) - data_min(feature) * Denom(x),
              (data_max(feature) - data_min(feature)) * Denom(x))

\* the checks of transform: the fitted columns, then the conversion to float64
Accepts(fitted, X) ==
  /\ DOMAIN X = Range(fitted)
  /\ \A f \in DOMAIN X : IsNumeric(X[f])

\* the feature names are checked first, the conversion to float64 after
ValueErrorText(fitted, X) ==
  IF DOMAIN X # Range(fitted)
  THEN "The feature names should match those that were passed during fit."
  ELSE "could not convert string to float"

transform(X) == [f \in DOMAIN X |-> MinMax(f, X[f])]

\* input_data[scale_vars]: the columns of scale_vars
Columns(df, cols) == [f \in Range(cols) \cap DOMAIN df |-> df[f]]

\* input_data_scaled[scale_vars] = ...: assignment to the columns
Assign(df, X) == [f \in DOMAIN df |-> IF f \in DOMAIN X THEN X[f] ELSE df[f]]

\* the frame with some of its columns scaled already
TransformArgRescaled(input) ==
  Assign(Columns(input, scale_vars),
         transform(Columns(input, << "vintage", "age", "dependents" >>)))

\* the argument of scaler.transform
TransformArg(input) == Columns(input, scale_vars)

(***************************************************************************)
(* What the classifier can answer.  predict_proba returns a pair           *)
(* [p_retain, p_churn] of binary floats, here in units of 2^-16 (the pair   *)
(* sums to 65536), or raises; predict returns a class index, or raises.    *)
(***************************************************************************)
ProbaAnswers == { <<58982, 6554>>, <<31957, 33579>>, <<7864, 57672>>, <<63488, 2048>> }
ClassAnswers == {0, 1}
ModelErrors == { "feature_names mismatch" }

\* f"{p:.2%}" of the float p / 2^16: p * 100 is exact, and its decimal form
\* with two places is the nearest one, the even one on a tie.  The result is
\* in hundredths of a percent.
FormatPercent(p) ==
  LET q == (10000 * p) \div 65536
      r == (10000 * p) % 65536
  IN  IF r > 32768 \/ (r = 32768 /\ q % 2 = 1) THEN q + 1 ELSE q

prediction_label(prediction) == IF prediction = 1 THEN "Churned" ELSE "Retained"

(***************************************************************************)
(* Files of the working directory the script opens.                        *)
(***************************************************************************)
ModelFile == "best_xgboost_model.pkl"
ScalerFile == "scaler.pkl"
Files == { ModelFile, ScalerFile, "Pic 1.png", "Pic 2.png", "feature_importance.xlsx" }

\* what scaler.pkl may hold: a scaler fitted on the scale_vars columns, or one
\* fitted on another frame (transform then raises ValueError on the mismatch)
FittedColumns == { scale_vars, feature_names }

\* an element written to the page
Element(w, text, detail, val) == << w, text, detail, val >>

Writer(el) == el[1]
TextIn(el) == el[2]
Detail(el) == el[3]
Value(el) == el[4]

VARIABLES
  files,              \* the files present in the working directory
  scaler_pkl,         \* content of scaler.pkl: the columns the scaler was fitted on
  widgets,            \* session state: the value each sidebar widget holds
  button,             \* st.button("Predict") returns True in this execution
  runs,               \* executions of the script so far, this one included
  pc,                 \* position of the current execution
  model, scaler,      \* the script's globals of Step 1
  user_inputs, input_data, input_data_scaled,
  page,               \* the elements this execution has written
  calls,              \* library calls of this execution, in order
  scalerArgs,         \* the arguments scaler.transform was given in this execution
  probabilities, prediction,   \* the locals of the Predict block
  e,                  \* message of the exception the except clause of line 157 holds, "" if none
  modelLoads, scalerLoads,   \* pickle.load calls since the process started
  previous,           \* how the previous execution's request ended
  stale               \* widgets on the screen that an earlier execution put there and
                      \* this execution has not redrawn; an execution that ends clears them

vars == << files, scaler_pkl, widgets, button, runs, pc, model, scaler, user_inputs, input_data,
           input_data_scaled, page, calls, scalerArgs, probabilities, prediction, e,
           modelLoads, scalerLoads, previous, stale >>

Init ==
  /\ files \in { Files \ m : m \in { x \in SUBSET Files : Cardinality(x) <= MaxMissing } }
  /\ scaler_pkl \in FittedColumns
  /\ widgets = [f \in Range(feature_names) |-> WidgetDefault(f)]
  /\ button = FALSE
  /\ runs = 1
  /\ pc = "load_model"
  /\ model = "None"
  /\ scaler = "None"
  /\ user_inputs = NoRecord
  /\ input_data = NoRecord
  /\ input_data_scaled = NoRecord
  /\ page = << >>
  /\ calls = << >>
  /\ scalerArgs = << >>
  /\ probabilities = << >>
  /\ prediction = -1
  /\ e = ""
  /\ modelLoads = 0
  /\ scalerLoads = 0
  /\ previous = "none"
  /\ stale = {}

(***************************************************************************)
(* Step 1: load the model and the scaler.  A missing file is reported and  *)
(* st.stop() ends the execution.                                           *)
(***************************************************************************)
\* pickle.load: the object of the file, named after it
pickle_load(file) == file

\* what stays on the screen of what earlier executions drew, when this
\* execution goes on at position to: nothing once it has ended
Leftover(to) == IF to \in {"done", "stopped", "crashed"} THEN {} ELSE stale

\* where the execution is after lines 18-19 (st.error, st.stop)
AfterModelNotFound == "stopped"

AfterScalerNotFoundContinue == "collect"

\* where the execution is after lines 26-27 (st.error, st.stop)
AfterScalerNotFound == "stopped"

LoadModel ==
  /\ pc = "load_model"
  /\ IF ModelFile \in files
     THEN /\ model' = pickle_load(ModelFile)
          /\ modelLoads' = modelLoads + 1
          /\ calls' = Append(calls, "pickle.load(model)")
          /\ pc' = "load_scaler"
          /\ page' = page
          /\ stale' = stale
     ELSE /\ page' = Append(page, Element("st.error", "best_xgboost_model.pkl not found!", "", 0))
          /\ pc' = AfterModelNotFound
          /\ stale' = Leftover(AfterModelNotFound)
          /\ UNCHANGED << model, modelLoads, calls >>
  /\ UNCHANGED << files, scaler_pkl, widgets, button, runs, scaler, user_inputs, input_data,
                  input_data_scaled, scalerArgs, probabilities, prediction, e,
                  scalerLoads, previous >>

LoadScaler ==
  /\ pc = "load_scaler"
  /\ IF ScalerFile \in files
     THEN /\ scaler' = pickle_load(ScalerFile)
          /\ scalerLoads' = scalerLoads + 1
          /\ calls' = Append(calls, "pickle.load(scaler)")
          /\ pc' = "collect"
          /\ page' = page
          /\ stale' = stale
     ELSE /\ page' = Append(page, Element("st.error", "scaler.pkl not found!", "", 0))
          /\ pc' = AfterScalerNotFound
          /\ stale' = Leftover(AfterScalerNotFound)
          /\ UNCHANGED << scaler, scalerLoads, calls >>
  /\ UNCHANGED << files, scaler_pkl, widgets, button, runs, model, user_inputs, input_data,
                  input_data_scaled, scalerArgs, probabilities, prediction, e,
                  modelLoads, previous >>

(***************************************************************************)
(* Step 3: the sidebar.  The image, the header, then one widget per entry  *)
(* of feature_names, whose value goes into user_inputs; after the last one *)
(* pd.DataFrame([user_inputs]).  st.image of a missing file raises, and    *)
(* nothing catches it.                                                     *)
(***************************************************************************)
\* line 54
SidebarImage ==
  /\ pc = "collect"
  /\ IF "Pic 1.png" \in files
     THEN /\ page' = Append(page, Element("st.sidebar.image", "Pic 1.png", "", 0))
          /\ pc' = "sidebar_header"
          /\ stale' = stale
     ELSE /\ page' = page
          /\ pc' = "crashed"
          /\ stale' = Leftover("crashed")
  /\ UNCHANGED << files, scaler_pkl, widgets, button, runs, model, scaler, user_inputs, input_data,
                  input_data_scaled, calls, scalerArgs, probabilities, prediction, e,
                  modelLoads, scalerLoads, previous >>

\* lines 55-69
SidebarHeader ==
  /\ pc = "sidebar_header"
  /\ page' = Append(page, Element("st.sidebar.header", "User Inputs", "", 0))
  /\ user_inputs' = NoRecord
  /\ pc' = "widget"
  /\ UNCHANGED << files, scaler_pkl, widgets, button, runs, model, scaler, input_data,
                  input_data_scaled, calls, scalerArgs, probabilities, prediction, e,
                  modelLoads, scalerLoads, previous, stale >>

\* one pass of the loop of lines 70-83; after the last pass, line 86
SidebarWidget ==
  /\ pc = "widget"
  /\ LET feature == feature_names[Cardinality(DOMAIN user_inputs) + 1] IN
       /\ page' = Append(page, Element(WidgetKind(feature), feature, "", 0))
       /\ stale' = stale \ {feature}
       /\ user_inputs' = [f \in DOMAIN user_inputs \cup {feature} |->
                            IF f = feature THEN widgets[f] ELSE user_inputs[f]]
       /\ IF Cardinality(DOMAIN user_inputs) + 1 = Len(feature_names)
          THEN /\ input_data' = user_inputs'
               /\ calls' = Append(calls, "collect")
               /\ pc' = "encode"
          ELSE /\ pc' = "widget"
               /\ UNCHANGED << input_data, calls >>
  /\ UNCHANGED << files, scaler_pkl, widgets, button, runs, model, scaler, input_data_scaled,
                  scalerArgs, probabilities, prediction, e, modelLoads, scalerLoads,
                  previous >>

\* input_data.replace({...}, inplace=True)
EncodeCategoricals ==
  /\ pc = "encode"
  /\ input_data' = replace(input_data)
  /\ calls' = Append(calls, "input_data.replace")
  /\ pc' = "scale"
  /\ UNCHANGED << files, scaler_pkl, widgets, button, runs, model, scaler, user_inputs,
                  input_data_scaled, page, scalerArgs, probabilities, prediction, e,
                  modelLoads, scalerLoads, previous, stale >>

(***************************************************************************)
(* Step 4: input_data_scaled = input_data.copy(), then scaler.transform on *)
(* the scale_vars columns of input_data.  A ValueError of the scaler takes *)
(* the execution to the except clause, which reports it; st.stop() then    *)
(* ends the execution.                                                     *)
(***************************************************************************)
AfterValueErrorContinue == "render"

\* where the execution is after lines 105-106 (st.error, st.stop)
AfterValueError == "stopped"

\* lines 101-104
ApplyScaler ==
  /\ pc = "scale"
  /\ IF scaler = "None"
     THEN \* NameError, which the except clause does not catch
          /\ input_data_scaled' = input_data
          /\ pc' = "crashed"
          /\ stale' = Leftover("crashed")
          /\ UNCHANGED << calls, scalerArgs >>
     ELSE LET X == TransformArg(input_data) IN
          /\ calls' = Append(calls, "scaler.transform")
          /\ scalerArgs' = Append(scalerArgs, X)
          /\ stale' = stale
          /\ IF Accepts(scaler_pkl, X)
             THEN /\ input_data_scaled' = Assign(input_data, transform(X))
                  /\ pc' = "render"
             ELSE /\ input_data_scaled' = input_data
                  /\ pc' = "value_error"
  /\ UNCHANGED << files, scaler_pkl, widgets, button, runs, model, scaler, user_inputs, input_data,
                  page, probabilities, prediction, e, modelLoads, scalerLoads, previous >>

\* lines 105-106
ReportValueError ==
  /\ pc = "value_error"
  /\ page' = Append(page, Element("st.error",
                "Invalid input! Please check the values of your fields. Details: ",
                ValueErrorText(scaler_pkl, scalerArgs[Len(scalerArgs)]), 0))
  /\ pc' = AfterValueError
  /\ stale' = Leftover(AfterValueError)
  /\ UNCHANGED << files, scaler_pkl, widgets, button, runs, model, scaler, user_inputs, input_data,
                  input_data_scaled, calls, scalerArgs, probabilities, prediction, e,
                  modelLoads, scalerLoads, previous >>

(***************************************************************************)
(* Step 5, up to the Predict button: the banner, the title, the two        *)
(* columns with the feature-importance chart in the left one and the       *)
(* header of the right one.  st.image and pd.read_excel raise on a missing *)
(* file, and nothing catches it.                                           *)
(***************************************************************************)
\* a step that writes one element to the page and goes on
Write(from, el, to) ==
  /\ pc = from
  /\ page' = Append(page, el)
  /\ pc' = to
  /\ stale' = Leftover(to)
  /\ UNCHANGED << files, scaler_pkl, widgets, button, runs, model, scaler, user_inputs, input_data,
                  input_data_scaled, calls, scalerArgs, probabilities, prediction, e,
                  modelLoads, scalerLoads, previous >>

\* a step that ends in an exception nothing catches
Crash(from) ==
  /\ pc = from
  /\ pc' = "crashed"
  /\ stale' = Leftover("crashed")
  /\ UNCHANGED << files, scaler_pkl, widgets, button, runs, model, scaler, user_inputs, input_data,
                  input_data_scaled, page, calls, scalerArgs, probabilities, prediction, e,
                  modelLoads, scalerLoads, previous >>

\* line 111
Banner ==
  IF "Pic 2.png" \in files
  THEN Write("render", Element("st.image", "Pic 2.png", "", 0), "title")
  ELSE Crash("render")

\* line 112
Title == Write("title", Element("st.title", "Customer Churn Prediction", "", 0), "columns")

\* lines 115-118: st.columns(2), then the header of the left column
FeatureImportanceHeader ==
  Write("columns", Element("st.header", "Feature Importance", "", 0), "chart")

\* lines 120-132: pd.read_excel, px.bar, st.plotly_chart
FeatureImportanceChart ==
  IF "feature_importance.xlsx" \in files
  THEN Write("chart", Element("st.plotly_chart", "Feature Importance", "", 0), "prediction_header")
  ELSE Crash("chart")

\* line 136
PredictionHeader ==
  Write("prediction_header", Element("st.header", "Prediction", "", 0), "button")

(***************************************************************************)
(* The Predict block.  Without a press of the button the block is skipped. *)
(* With one, model.predict_proba and then model.predict are called on      *)
(* input_data_scaled; an exception of either takes the execution to the    *)
(* except clause, which writes it to the page, and the script goes on.     *)
(***************************************************************************)
AfterPredictionErrorCrash == "crashed"

\* where the execution is after line 158 (the except clause's st.error)
AfterPredictionError == "dashboard"

\* a call of lines 140-141 raises: control is at line 157 with e bound
PredictionFailed(msg, made, proba) ==
  /\ probabilities' = proba
  /\ calls' = calls \o made
  /\ e' = msg
  /\ pc' = "except"
  /\ UNCHANGED prediction

\* lines 137-141
Score ==
  /\ pc = "button"
  /\ page' = Append(page, Element("st.button", "Predict", "", 0))
  /\ stale' = stale \ {"Predict"}
  /\ IF ~button
     THEN /\ pc' = "dashboard"
          /\ UNCHANGED << calls, probabilities, prediction, e >>
     ELSE IF model = "None"
     THEN PredictionFailed("name 'model' is not defined", << >>, probabilities)
     ELSE \/ \E msg \in ModelErrors :
               PredictionFailed(msg, << "model.predict_proba" >>, probabilities)
          \/ \E msg \in ModelErrors, p \in ProbaAnswers :
               PredictionFailed(msg, << "model.predict_proba", "model.predict" >>, p)
          \/ \E p \in ProbaAnswers, c \in ClassAnswers :
               /\ probabilities' = p
               /\ prediction' = c
               /\ calls' = calls \o << "model.predict_proba", "model.predict" >>
               /\ pc' = "present"
               /\ UNCHANGED e
  /\ UNCHANGED << files, scaler_pkl, widgets, button, runs, model, scaler, user_inputs, input_data,
                  input_data_scaled, scalerArgs, modelLoads, scalerLoads, previous >>

\* lines 157-158; e is unbound when the clause is left
ReportPredictionError ==
  /\ pc = "except"
  /\ page' = Append(page, Element("st.error", " Error in prediction: ", e, 0))
  /\ e' = ""
  /\ pc' = AfterPredictionError
  /\ stale' = Leftover(AfterPredictionError)
  /\ UNCHANGED << files, scaler_pkl, widgets, button, runs, model, scaler, user_inputs, input_data,
                  input_data_scaled, calls, scalerArgs, probabilities, prediction,
                  modelLoads, scalerLoads, previous >>

\* lines 144-147
PresentLabel ==
  Write("present",
        Element("st.subheader", "Predicted Value: ", prediction_label(prediction), 0), "churn")

\* line 148
PresentChurn ==
  Write("churn",
        Element("st.write", "Churn Probability:", "", FormatPercent(probabilities[2])),
        "retention")

\* line 149
PresentRetention ==
  Write("retention",
        Element("st.write", "Retention Probability:", "", FormatPercent(probabilities[1])),
        "message")

\* lines 152-155
PresentMessage ==
  Write("message",
        IF prediction = 1
        THEN Element("st.error", "High risk of churn! Take action to retain this customer.", "", 0)
        ELSE Element("st.success", "Customer is likely to stay!", "", 0),
        "dashboard")

\* Step 6: the embedded dashboard, the last lines of the script
\* line 168
DashboardHeader ==
  Write("dashboard", Element("st.header", "Customer Insights Dashboard", "", 0), "embed")

\* line 169
DashboardEmbed ==
  Write("embed", Element("components.html", "tableauPlaceholder", "", 800), "done")

(***************************************************************************)
(* The state of the request an execution serves, read off what the         *)
(* execution has done so far.                                              *)
(***************************************************************************)
Shows(w, text) == \E i \in 1..Len(page) : Writer(page[i]) = w /\ TextIn(page[i]) = text

Called(c) == \E i \in 1..Len(calls) : calls[i] = c

Ended == pc \in {"done", "stopped", "crashed"}

RequestState ==
  IF \/ pc \in {"stopped", "crashed", "value_error", "except"}
     \/ Shows("st.error", " Error in prediction: ")
  THEN "Failed"
  ELSE IF prediction # -1 /\ pc \in {"dashboard", "embed", "done"} THEN "Rendered"
  ELSE IF prediction # -1 THEN "Scored"
  ELSE IF Called("scaler.transform") THEN "Scaled"
  ELSE IF Called("input_data.replace") THEN "Encoded"
  ELSE IF Called("collect") THEN "Collected"
  ELSE "Loading"

(***************************************************************************)
(* The user.  Any interaction makes Streamlit execute the script again     *)
(* from its first line with fresh globals.  If the script is running when  *)
(* the interaction arrives, the execution is abandoned at its next st.*    *)
(* call; what it did before (the pickle loads, the library calls) is done, *)
(* what it wrote stays on the screen together with what the execution      *)
(* before it left there, until a later execution runs to its end.  A       *)
(* widget can be edited, and the button pressed, only if it is on the      *)
(* screen; a reload of the page starts a new session with the widgets'     *)
(* defaults and an empty screen.                                           *)
(***************************************************************************)
\* the next thing the execution does is an st.* call that writes to the page
\* (st.image reads its file first, st.plotly_chart comes after pd.read_excel):
\* lines 11 and 18, 26, 54, 55, 72-83, 105, 111, 112, 115, 132, 136, 137, 158,
\* 147, 148, 149, 153/155, 168, 169
AtStCall ==
  \/ pc \in { "load_model", "sidebar_header", "widget", "value_error", "title", "columns",
              "prediction_header", "button", "except", "present", "churn", "retention",
              "message", "dashboard", "embed" }
  \/ pc = "load_scaler" /\ ScalerFile \notin files
  \/ pc = "collect" /\ "Pic 1.png" \in files
  \/ pc = "render" /\ "Pic 2.png" \in files
  \/ pc = "chart" /\ "feature_importance.xlsx" \in files

\* the widgets this execution has put on the screen
Drawn ==
  { f \in Range(feature_names) : Shows(WidgetKind(f), f) }
    \cup (IF Shows("st.button", "Predict") THEN {"Predict"} ELSE {})

\* what the browser shows of the widgets
OnScreen == Drawn \cup stale

\* the screens an interaction can find: the one of an ended execution, or of
\* an execution abandoned at an st.* call
Screens == IF Ended \/ AtStCall THEN { OnScreen } ELSE {}

Rerun(w, pressed, screen) ==
  /\ runs < MaxRuns
  /\ runs' = runs + 1
  /\ widgets' = w
  /\ button' = pressed
  /\ pc' = "load_model"
  /\ model' = "None"
  /\ scaler' = "None"
  /\ user_inputs' = NoRecord
  /\ input_data' = NoRecord
  /\ input_data_scaled' = NoRecord
  /\ page' = << >>
  /\ calls' = << >>
  /\ scalerArgs' = << >>
  /\ probabilities' = << >>
  /\ prediction' = -1
  /\ e' = ""
  /\ previous' = IF pc = "except" THEN "ScoringFailureUnreported"
                  ELSE IF ~Ended THEN "Abandoned"
                  ELSE IF Shows("st.error", " Error in prediction: ") THEN "ScoringFailed"
                  ELSE RequestState
  /\ stale' = screen
  /\ UNCHANGED << files, scaler_pkl, modelLoads, scalerLoads >>

EditWidget ==
  \E screen \in Screens :
    \E f \in screen \cap Range(feature_names) :
      \E v \in WidgetChoices(f, widgets[f]) :
        Rerun([widgets EXCEPT ![f] = v], FALSE, screen)

PressPredict ==
  \E screen \in Screens :
    /\ "Predict" \in screen
    /\ Rerun(widgets, TRUE, screen)

Reload ==
  /\ Screens # {}
  /\ Rerun([f \in Range(feature_names) |-> WidgetDefault(f)], FALSE, {})

Next ==
  \/ LoadModel
  \/ LoadScaler
  \/ SidebarImage
  \/ SidebarHeader
  \/ SidebarWidget
  \/ EncodeCategoricals
  \/ ApplyScaler
  \/ ReportValueError
  \/ Banner
  \/ Title
  \/ FeatureImportanceHeader
  \/ FeatureImportanceChart
  \/ PredictionHeader
  \/ Score
  \/ ReportPredictionError
  \/ PresentLabel
  \/ PresentChurn
  \/ PresentRetention
  \/ PresentMessage
  \/ DashboardHeader
  \/ DashboardEmbed
  \/ EditWidget
  \/ PressPredict
  \/ Reload

Spec == Init /\ [][Next]_vars

(***************************************************************************)
(* Vocabulary of the properties.                                           *)
(***************************************************************************)
Categoricals == {"gender", "occupation", "customer_nw_category", "city"}

ScriptStep ==
  \/ LoadModel \/ LoadScaler \/ SidebarImage \/ SidebarHeader \/ SidebarWidget
  \/ EncodeCategoricals \/ ApplyScaler \/ ReportValueError
  \/ Banner \/ Title \/ FeatureImportanceHeader \/ FeatureImportanceChart \/ PredictionHeader
  \/ Score \/ ReportPredictionError
  \/ PresentLabel \/ PresentChurn \/ PresentRetention \/ PresentMessage
  \/ DashboardHeader \/ DashboardEmbed

ModelCalled == Called("model.predict_proba") \/ Called("model.predict")

\* the element of the page written by w with the given text
Shown(w, text) == page[CHOOSE i \in 1..Len(page) : Writer(page[i]) = w /\ TextIn(page[i]) = text]

InvalidInputShown ==
  Shows("st.error", "Invalid input! Please check the values of your fields. Details: ")

LoadFailed ==
  \/ Shows("st.error", "best_xgboost_model.pkl not found!")
  \/ Shows("st.error", "scaler.pkl not found!")

\* the positions of an execution after line 103
AfterTransform ==
  { "value_error", "render", "title", "columns", "chart", "prediction_header", "button",
    "except", "present", "churn", "retention", "message", "dashboard", "embed", "done" }

CallOrder ==
  << "pickle.load(model)", "pickle.load(scaler)", "collect", "input_data.replace",
     "scaler.transform", "model.predict_proba", "model.predict" >>

\* the integer codes the documentation gives
DocumentedCode(feature, label) ==
  CASE feature = "gender" /\ label = "Male" -> 1
    [] feature = "gender" /\ label = "Female" -> 0
    [] feature = "occupation" /\ label = "salaried" -> 1
    [] feature = "occupation" /\ label = "self-employed" -> 2
    [] feature = "occupation" /\ label = "unemployed" -> 3
    [] feature = "customer_nw_category" /\ label = "1" -> 1
    [] feature = "customer_nw_category" /\ label = "2" -> 2
    [] feature = "customer_nw_category" /\ label = "3" -> 3
    [] feature = "city" /\ label = "1020" -> 1020
    [] feature = "city" /\ label = "1030" -> 1030
    [] OTHER -> -1

(***************************************************************************)
(* C3.  If either artifact file is missing, the execution reports it and   *)
(* halts: nothing is collected, encoded, scaled or scored, and the Predict *)
(* button is never put on the page.                                        *)
(***************************************************************************)
C3_MissingArtifactHalts ==
  /\ (ModelFile \notin files /\ pc # "load_model") => LoadFailed
  /\ (ModelFile \in files /\ ScalerFile \notin files /\ pc \notin {"load_model", "load_scaler"})
        => LoadFailed
  /\ LoadFailed =>
       /\ pc = "stopped"
       /\ user_inputs = NoRecord /\ input_data = NoRecord /\ input_data_scaled = NoRecord
       /\ ~Called("collect") /\ ~Called("input_data.replace")
       /\ ~Called("scaler.transform") /\ ~ModelCalled
       /\ ~Shows("st.button", "Predict")
       /\ ~ENABLED ScriptStep

C3_Witness == pc = "stopped" /\ LoadFailed /\ model = ModelFile /\ runs > 1

(***************************************************************************)
(* C4.  The artifacts are loaded exactly once per process: the number of   *)
(* loads of each stays at most 1 over any sequence of user interactions,   *)
(* no request loads them again.  (Stated as claimed; the script does       *)
(* otherwise.)                                                             *)
(***************************************************************************)
C4_LoadedOncePerProcess == modelLoads <= 1 /\ scalerLoads <= 1

(***************************************************************************)
(* C5.  The displayed label is "Churned" iff the class index is 1, and it  *)
(* never disagrees with the displayed probabilities, whatever the model    *)
(* returns: never "Churned" with the churn probability below the retention *)
(* probability, nor "Retained" with it above.  (Stated as claimed; the     *)
(* script does otherwise.)                                                 *)
(***************************************************************************)
C5_LabelAgreesWithProbabilities ==
  Shows("st.subheader", "Predicted Value: ") =>
    LET label == Detail(Shown("st.subheader", "Predicted Value: "))
        churn == Value(Shown("st.write", "Churn Probability:"))
        retention == Value(Shown("st.write", "Retention Probability:"))
    IN  /\ label = "Churned" <=> prediction = 1
        /\ label = "Retained" <=> prediction # 1
        /\ (Shows("st.write", "Churn Probability:") /\ Shows("st.write", "Retention Probability:")) =>
              /\ ~(label = "Churned" /\ churn < retention)
              /\ ~(label = "Retained" /\ churn > retention)

(***************************************************************************)
(* C6, amended.  An exception of model.predict_proba or model.predict is   *)
(* caught: the execution goes to the except clause and does not crash, the *)
(* request is Failed and no prediction is shown.  Unless a new interaction *)
(* abandons the execution first, the except clause shows the exception to  *)
(* the user with its message and the rest of the page (the dashboard) is   *)
(* still rendered.  The witness is a later Predict press that succeeds.    *)
(***************************************************************************)
C6_ScoringFailureIsCaught ==
  \* a model call was made and no prediction was bound: one of the calls raised
  (ModelCalled /\ prediction = -1) =>
    /\ pc \in {"except", "dashboard", "embed", "done"}
    /\ pc = "except" => (e \in ModelErrors /\ ENABLED ReportPredictionError)
    /\ pc # "except" =>
          /\ Shows("st.error", " Error in prediction: ")
          /\ Detail(Shown("st.error", " Error in prediction: ")) \in ModelErrors
    /\ ~Shows("st.subheader", "Predicted Value: ")
    /\ RequestState = "Failed"
    /\ pc = "done" => /\ Shows("st.header", "Customer Insights Dashboard")
                      /\ Shows("components.html", "tableauPlaceholder")
    /\ pc = "dashboard" => ENABLED DashboardHeader
    /\ pc = "embed" => ENABLED DashboardEmbed

(***************************************************************************)
(* C6, as claimed.  Every exception of model.predict_proba or              *)
(* model.predict is caught and shown to the user: on top of the above, no  *)
(* execution is left behind with its exception not shown.                  *)
(***************************************************************************)
C6_EveryScoringFailureIsShown ==
  /\ C6_ScoringFailureIsCaught
  /\ previous # "ScoringFailureUnreported"

C6_Witness ==
  /\ previous = "ScoringFailed"
  /\ button
  /\ pc = "done"
  /\ RequestState = "Rendered"

\* the failed request itself: predict raised after predict_proba had returned
C6_WitnessFailed ==
  /\ pc = "done"
  /\ ModelCalled /\ prediction = -1
  /\ probabilities # << >>

(***************************************************************************)
(* The part of C7 that does not depend on how an execution ends: the calls *)
(* of an execution are made in the order load, load, collect, encode,      *)
(* scale, score, each at most once; encoding completes before              *)
(* scaler.transform is called; the model is called only after encoding and *)
(* a successful scaling in the same execution; once an execution has ended *)
(* no step of the script can run again, only a user action starts the next *)
(* execution.                                                              *)
(***************************************************************************)
StepsInOrder ==
  /\ \E n \in 0..Len(CallOrder) : calls = SubSeq(CallOrder, 1, n)
  /\ Called("scaler.transform") =>
        /\ Called("input_data.replace")
        /\ input_data = replace(user_inputs)
  /\ ModelCalled =>
        /\ Called("input_data.replace") /\ Called("scaler.transform")
        /\ ~InvalidInputShown
        /\ input_data_scaled = Assign(input_data, transform(Columns(input_data, scale_vars)))
        /\ \A f \in Range(scale_vars) : TypeOf(input_data_scaled[f]) = "float"
  /\ RequestState \in {"Scored", "Rendered"} => Called("model.predict")
  /\ Ended => ~ENABLED ScriptStep
  /\ Ended => (runs < MaxRuns => ENABLED Reload)

(***************************************************************************)
(* C7, as claimed.  Each request moves through Collected, Encoded, Scaled, *)
(* Scored in that order and ends in Rendered or Failed; no step is         *)
(* re-executed after the end until a new user action.                      *)
(***************************************************************************)
C7_EveryRequestEndsRenderedOrFailed ==
  /\ StepsInOrder
  /\ Ended => RequestState \in {"Rendered", "Failed"}

(***************************************************************************)
(* C7, amended.  The steps of an execution happen in the order load,       *)
(* collect, encode, scale, score, each at most once, encoding before       *)
(* scaler.transform and the model only after encoding and a successful     *)
(* scaling in the same execution.  Only an execution started by a Predict  *)
(* press calls the model: run to the end of the script it is Rendered or   *)
(* Failed.  An execution started by a page load or a widget edit never     *)
(* calls the model and shows no prediction: run to the end of the script   *)
(* it is Scaled.  A stopped or crashed execution is Failed.  Once an       *)
(* execution has ended no step of the script can run again: only a user    *)
(* action starts the next execution.                                       *)
(***************************************************************************)
C7_RequestStateMachine ==
  /\ StepsInOrder
  /\ (button /\ pc = "done") => RequestState \in {"Rendered", "Failed"}
  /\ ~button =>
        /\ ~ModelCalled /\ prediction = -1 /\ probabilities = << >>
        /\ ~Shows("st.subheader", "Predicted Value: ")
        /\ ~Shows("st.error", " Error in prediction: ")
        /\ RequestState \notin {"Scored", "Rendered"}
  /\ (~button /\ pc = "done") => RequestState = "Scaled"
  /\ pc \in {"stopped", "crashed"} => RequestState = "Failed"

C7_Witness ==
  /\ pc = "done" /\ button /\ RequestState = "Rendered"
  /\ previous = "Scaled"
  /\ calls = CallOrder

(***************************************************************************)
(* C8.  An execution that reaches the scaling step calls scaler.transform  *)
(* exactly once, on the encoded and not yet scaled values of the           *)
(* scale_vars columns of this execution's inputs; the scaler never gets    *)
(* its own output, neither of this execution nor of an earlier one.        *)
(***************************************************************************)
C8_TransformOncePerRequest ==
  /\ Len(scalerArgs) <= 1
  /\ Len(scalerArgs) = Cardinality({i \in 1..Len(calls) : calls[i] = "scaler.transform"})
  /\ pc \in AfterTransform => Len(scalerArgs) = 1
  /\ (pc = "stopped" /\ ~LoadFailed) => Len(scalerArgs) = 1
  /\ Len(scalerArgs) = 1 =>
        /\ scalerArgs[1] = Columns(replace(user_inputs), scale_vars)
        /\ DOMAIN scalerArgs[1] = Range(scale_vars)
        /\ \A f \in DOMAIN scalerArgs[1] :
              /\ TypeOf(scalerArgs[1][f]) = "int"
              /\ scalerArgs[1][f] = widgets[f]

C8_Witness ==
  /\ runs = 3 /\ pc = "done" /\ previous = "Rendered"
  /\ Len(scalerArgs) = 1
  /\ scalerArgs[1]["vintage"] # default_values("vintage")
  /\ input_data_scaled["vintage"] =
        PyFloat(Numer(widgets["vintage"]), 2 * Numer(default_values("vintage")))

(***************************************************************************)
(* C9.  After encoding, each categorical column holds the documented       *)
(* integer code of the value collected for it, and the other columns hold  *)
(* what was collected: no table re-maps a value of another feature.        *)
(***************************************************************************)
C9_DocumentedCodes ==
  Called("input_data.replace") =>
    /\ DOMAIN input_data = DOMAIN user_inputs
    /\ \A f \in Categoricals :
          /\ TextOf(user_inputs[f]) \in Range(Options(f))
          /\ input_data[f] = PyInt(DocumentedCode(f, TextOf(user_inputs[f])))
    /\ \A f \in DOMAIN input_data \ Categoricals : input_data[f] = user_inputs[f]

C9_Witness ==
  /\ Called("input_data.replace")
  /\ user_inputs["gender"] = PyStr("Female") /\ input_data["gender"] = PyInt(0)
  /\ user_inputs["occupation"] = PyStr("unemployed") /\ input_data["occupation"] = PyInt(3)
  /\ input_data["city"] = PyInt(1020)
  /\ input_data["dependents"] = PyInt(2)

(***************************************************************************)
(* C10.  The collector yields exactly one value per entry of               *)
(* feature_names, the widgets in schema order (while the sidebar is being  *)
(* drawn, of the first entries of feature_names); every feature outside    *)
(* scale_vars is one of the four categoricals, collected from a selectbox  *)
(* whose options are all keys of its encoding table; no feature is         *)
(* collected through the free-text input; so every collected categorical   *)
(* value has an entry in its table.                                        *)
(***************************************************************************)
C10_CollectorIsClosed ==
  /\ \A f \in Range(feature_names) \ Range(scale_vars) :
        /\ f \in Categoricals
        /\ f \in DOMAIN EncodingTable
        /\ WidgetKind(f) = "selectbox"
        /\ Range(Options(f)) \subseteq DOMAIN EncodingTable[f]
  /\ \A f \in Range(feature_names) : WidgetKind(f) # "text_input"
  /\ pc \in {"load_model", "load_scaler", "collect", "sidebar_header"} => user_inputs = NoRecord
  /\ \E n \in 0..Len(feature_names) :
        /\ DOMAIN user_inputs = { feature_names[i] : i \in 1..n }
        /\ Cardinality(DOMAIN user_inputs) = n
        /\ pc = "widget" => n < Len(feature_names)
        /\ Called("collect") <=> n = Len(feature_names)
        /\ n > 0 =>
              \A i \in 1..n :
                 /\ TextIn(page[2 + i]) = feature_names[i]
                 /\ Writer(page[2 + i]) \in {"number_input", "selectbox"}
  /\ \A i \in 1..Len(page) : Writer(page[i]) # "text_input"
  /\ \A f \in DOMAIN user_inputs \ Range(scale_vars) :
        /\ TypeOf(user_inputs[f]) = "str"
        /\ TextOf(user_inputs[f]) \in DOMAIN EncodingTable[f]
  /\ \A f \in DOMAIN user_inputs \cap Range(scale_vars) : TypeOf(user_inputs[f]) = "int"
  /\ Called("collect") => DOMAIN user_inputs = Range(feature_names)

C10_Witness ==
  /\ Called("collect") /\ pc = "encode"
  /\ user_inputs["city"] = PyStr("1030")
  /\ user_inputs["occupation"] = PyStr("unemployed")

====
